---- MODULE Spec2Model ----
(***************************************************************************)
(* The Todo CRUD service of kbimsara/todo_infrastructure: the Mongoose     *)
(* schema of models/Todo.ts and the REST handlers of app/api/todos/route.ts*)
(* and app/api/todos/[id]/route.ts, over one collection of Todo documents, *)
(* with the health probe of app/api/health/route.ts.                       *)
(*                                                                         *)
(* A JSON / BSON value is a record [k, c, n]: k is its kind, and           *)
(*   "absent"  the field is not there (undefined)                          *)
(*   "null"    JSON null                                                   *)
(*   "str"     the string made of the character c repeated n times         *)
(*   "bool"    n = 1 is true, n = 0 is false                               *)
(*   "num"     the number n                                                *)
(*   "obj"     the JSON object {} (no schema type casts it)                *)
(*   "oid"     the well-formed ObjectId number n (24 hex digits)           *)
(*   "date"    the instant n                                               *)
(*   "casterr" what a failed Mongoose cast leaves behind (a CastError)     *)
(***************************************************************************)
EXTENDS Integers, Sequences, FiniteSets, TLC

VARIABLES todos, now, last

\* The persistence layer: whether the store can be reached, and whether the
\* process holds its cached connection handle ("none" until first use).
VARIABLES storeUp, conn

persistence == <<storeUp, conn>>

\* Requests handled concurrently: reqs[r] is the request in slot r with the
\* point its handler has reached, and base is the collection as it was when
\* no request was in progress.
VARIABLES reqs, base

concurrent == <<reqs, base>>

\* The page: view is its list of todos (the state `todos` of Home), loading
\* its loading flag, calls[c] the call of a handler of the page that awaits
\* its fetch, with the list the handler was created over, and console the
\* messages of console.error since the page was loaded.
VARIABLES view, loading, calls, console

page == <<view, loading, calls, console>>

\* The add form (TodoForm): its fields title and description.
VARIABLE form

\* The deployment: tf is the Terraform file that was applied, script the run
\* of its startup script on the VM, vm what the VM holds and runs, and lb the
\* load balancer's health check of the backend.
VARIABLES tf, script, vm, lb

deployment == <<tf, script, vm, lb>>

vars ==
    <<todos, now, last, storeUp, conn, reqs, base, view, loading, calls, console,
      form, tf, script, vm, lb>>

(* ------------------------------ bounds -------------------------------- *)
\* Number of distinct well-formed ObjectIds.
MaxId == 2
\* Number of requests that can be in progress at once.
MaxRequests == 2
\* Number of handlers of the page that can await their fetch at once.
MaxCalls == 2
\* Number of messages the console keeps.
MaxConsole == 1
\* Last instant of the store's clock.
MaxTime == 1

(* ------------------------ program constants --------------------------- *)
TitleMaxLength == 200
DescriptionMaxLength == 1000

(* ------------------------------ values -------------------------------- *)
V(k, c, n) == [k |-> k, c |-> c, n |-> n]
Absent == V("absent", "", 0)
Null == V("null", "", 0)
Obj == V("obj", "", 0)
CastError == V("casterr", "", 0)
Str(c, n) == V("str", IF n = 0 THEN "" ELSE c, n)
Bool(b) == V("bool", "", IF b THEN 1 ELSE 0)
Num(n) == V("num", "", n)
Oid(i) == V("oid", "", i)
Date(t) == V("date", "", t)

\* String.prototype.trim on a string of one repeated character.
Trim(v) == IF v.k = "str" /\ v.c = " " THEN Str("", 0) ELSE v

Ids == 1..MaxId
\* An instant later than any the clock reaches: a date a client can still write.
FutureTime == MaxTime + 1
\* A path segment that is no ObjectId.
MalformedId == Str("a", 1)
PathIds == {Oid(i) : i \in Ids} \cup {MalformedId}

(* --------------------------- request bodies --------------------------- *)
TitleInputs ==
    {Absent, Str("a", 0), Str(" ", 1), Str("a", TitleMaxLength),
     Str("a", TitleMaxLength + 1)}
DescriptionInputs ==
    {Absent, Str("a", DescriptionMaxLength), Str("a", DescriptionMaxLength + 1)}
CompletedInputs == {Absent, Null, Bool(TRUE), Bool(FALSE), Num(1), Obj}

Body(ok, t, d, c, i, ca, ua) ==
    [json |-> ok, title |-> t, description |-> d, completed |-> c,
     _id |-> i, createdAt |-> ca, updatedAt |-> ua]

\* Bodies that carry only the three fields of the form.
FieldBodies ==
    {Body(TRUE, t, d, c, Absent, Absent, Absent) :
        t \in TitleInputs, d \in DescriptionInputs, c \in CompletedInputs}
\* Bodies that also carry a store-assigned field: an _id, or a timestamp.
MetaBodies ==
    {Body(TRUE, t, Absent, Absent, i, Absent, Absent) :
        t \in {Absent, Str("a", TitleMaxLength)},
        i \in {MalformedId} \cup {Oid(j) : j \in Ids}}
    \cup
    {Body(TRUE, t, Absent, Absent, Absent, ts[1], ts[2]) :
        t \in {Absent, Str("a", TitleMaxLength)},
        ts \in {<<Date(FutureTime), Absent>>, <<Absent, Date(FutureTime)>>}}
\* A request body that is not JSON: request.json() throws.
NotJson == Body(FALSE, Absent, Absent, Absent, Absent, Absent, Absent)
Bodies == FieldBodies \cup MetaBodies \cup {NotJson}
NoBody == Body(TRUE, Absent, Absent, Absent, Absent, Absent, Absent)

(* ----------------------------- TodoSchema ----------------------------- *)
\* SchemaString cast.
CastString(v) ==
    CASE v.k \in {"absent", "null", "str"} -> v
      [] OTHER -> CastError

\* SchemaBoolean cast: true, 1 are true; false, 0 are false; null stays null.
CastBoolean(v) ==
    CASE v.k \in {"absent", "null", "bool"} -> v
      [] v.k = "num" /\ v.n \in {0, 1} -> Bool(v.n = 1)
      [] OTHER -> CastError

\* ObjectId cast of a path segment or of a body's _id.
CastObjectId(v) ==
    CASE v.k \in {"absent", "oid"} -> v
      [] OTHER -> CastError

\* SchemaDate cast.
CastDate(v) ==
    CASE v.k \in {"absent", "null", "date"} -> v
      [] OTHER -> CastError

\* required: [true, ...] on a String path: a string of length > 0.
TitleRequired(v) == v.k = "str" /\ v.n > 0

\* maxlength: [m, ...]: null and undefined pass.
MaxLengthMutant(v, m) == v.k = "str" => v.n <= m + 1
MaxLength(v, m) == v.k = "str" => v.n <= m

\* default: false on completed, applied when the field is undefined.
CompletedDefaultMutant(v) == v
CompletedDefault(v) == IF v.k = "absent" THEN Bool(FALSE) ELSE v


(* --------------------------- Todo.create ------------------------------ *)
\* new Todo(body): strict mode keeps the schema paths only, each cast to its
\* type; a failed cast is kept as a CastError and reported by validation.
NewDocument(body) ==
    [_id |-> CastObjectId(body._id),
     title |-> CastString(body.title),
     description |-> CastString(body.description),
     completed |-> CompletedDefault(CastBoolean(body.completed)),
     createdAt |-> CastDate(body.createdAt),
     updatedAt |-> CastDate(body.updatedAt)]

HasCastError(d) == \E f \in DOMAIN d : d[f] = CastError

\* Document validation before save: casts, then the validators of each path.
ValidateDocument(d) ==
    /\ ~HasCastError(d)
    /\ TitleRequired(d.title)
    /\ MaxLength(d.title, TitleMaxLength)
    /\ MaxLength(d.description, DescriptionMaxLength)

\* timestamps: true on save of a new document: createdAt is set unless the
\* document already carries one, updatedAt is set to createdAt.
SetDocumentTimestamps(d, t) ==
    LET c == IF d.createdAt.k = "date" THEN d.createdAt ELSE Date(t)
    IN  [d EXCEPT !.createdAt = c, !.updatedAt = c]

\* The stored fields of a document; its _id is the key of the collection.
Fields(d) ==
    [title |-> d.title, description |-> d.description, completed |-> d.completed,
     createdAt |-> d.createdAt, updatedAt |-> d.updatedAt]

\* A document as a response carries it.
Item(store, i) ==
    [_id |-> Oid(i), title |-> store[i].title, description |-> store[i].description,
     completed |-> store[i].completed, createdAt |-> store[i].createdAt,
     updatedAt |-> store[i].updatedAt]

\* insertOne: the unique index on _id rejects a duplicate key (E11000).
InsertOneMutant(store, i, d) ==
    [ok |-> TRUE,
     store |-> [j \in DOMAIN store \cup {i} |-> IF j = i THEN Fields(d) ELSE store[j]]]
InsertOne(store, i, d) ==
    IF i \in DOMAIN store
    THEN [ok |-> FALSE, store |-> store]
    ELSE [ok |-> TRUE,
          store |-> [j \in DOMAIN store \cup {i} |-> IF j = i THEN Fields(d) ELSE store[j]]]

\* Todo.create(body) at instant t, g being the ObjectId the driver generates
\* when the body brings no _id.
Create(store, body, g, t) ==
    LET d0 == NewDocument(body)
        d1 == [d0 EXCEPT !._id = IF @.k = "absent" THEN Oid(g) ELSE @]
        d2 == SetDocumentTimestamps(d1, t)
        ins == InsertOne(store, d2._id.n, d2)
    IN  IF ~ValidateDocument(d1) THEN [ok |-> FALSE, store |-> store, id |-> 0]
        ELSE IF ~ins.ok THEN [ok |-> FALSE, store |-> store, id |-> 0]
        ELSE [ok |-> TRUE, store |-> ins.store, id |-> d2._id.n]

(* ---------------------- Todo.findByIdAndUpdate ------------------------ *)
\* The update document Mongoose sends for findByIdAndUpdate(id, body,
\* {new: true, runValidators: true}): the body's schema paths cast and put
\* under $set; timestamps drop createdAt and set updatedAt to the current time.
CastUpdateMutant(body, t) ==
    [_id |-> CastObjectId(body._id),
     title |-> CastString(body.title),
     description |-> CastString(body.description),
     completed |-> CompletedDefault(CastBoolean(body.completed)),
     createdAt |-> Absent,
     updatedAt |-> Date(t)]
CastUpdate(body, t) ==
    [_id |-> CastObjectId(body._id),
     title |-> CastString(body.title),
     description |-> CastString(body.description),
     completed |-> CastBoolean(body.completed),
     createdAt |-> Absent,
     updatedAt |-> Date(t)]

\* runValidators: true: the validators of the paths the update sets.
UpdateValidatorsMutant(u) ==
    /\ ~HasCastError(u)
    /\ u.title.k # "absent" =>
           TitleRequired(u.title) /\ MaxLength(u.title, TitleMaxLength)
UpdateValidators(u) ==
    /\ ~HasCastError(u)
    /\ u.title.k # "absent" => TitleRequired(u.title) /\ MaxLength(u.title, TitleMaxLength)
    /\ u.description.k # "absent" => MaxLength(u.description, DescriptionMaxLength)

\* $set of one path: a path the update does not name keeps its value.
SetPathMutant(old, new) == new
SetPath(old, new) == IF new.k = "absent" THEN old ELSE new

\* $set applied to a stored document.
ApplySet(d, u) ==
    [title |-> SetPath(d.title, u.title),
     description |-> SetPath(d.description, u.description),
     completed |-> SetPath(d.completed, u.completed),
     createdAt |-> SetPath(d.createdAt, u.createdAt),
     updatedAt |-> SetPath(d.updatedAt, u.updatedAt)]

\* findOneAndUpdate({_id: i}, {$set: u}) at the store: no match returns null;
\* a $set of _id to another value is refused (immutable field).
\* res is "ok", "null" or "error".
FindOneAndUpdateMutant(store, i, u) ==
    IF u._id.k = "oid" /\ u._id.n # i THEN [res |-> "error", store |-> store]
    ELSE [res |-> "ok",
          store |-> [j \in DOMAIN store \cup {i} |->
                        IF j # i THEN store[j]
                        ELSE IF i \in DOMAIN store THEN ApplySet(store[i], u)
                        ELSE ApplySet([title |-> Absent, description |-> Absent,
                                       completed |-> Absent, createdAt |-> Date(u.updatedAt.n),
                                       updatedAt |-> Absent], u)]]
FindOneAndUpdate(store, i, u) ==
    IF i \notin DOMAIN store THEN [res |-> "null", store |-> store]
    ELSE IF u._id.k = "oid" /\ u._id.n # i THEN [res |-> "error", store |-> store]
    ELSE [res |-> "ok", store |-> [store EXCEPT ![i] = ApplySet(@, u)]]

\* findOneAndDelete({_id: i}).
FindOneAndDeleteMutant(store, i) ==
    IF i \notin DOMAIN store THEN [res |-> "null", store |-> store]
    ELSE [res |-> "ok", store |-> store]
FindOneAndDelete(store, i) ==
    IF i \notin DOMAIN store THEN [res |-> "null", store |-> store]
    ELSE [res |-> "ok", store |-> [j \in DOMAIN store \ {i} |-> store[j]]]

(* ------------------------------ find().sort --------------------------- *)
\* The orders in which find({}).sort({createdAt: -1}) can return the
\* collection: createdAt descending, ties in any order.
RECURSIVE SortedListsMutant(_, _)
SortedListsMutant(store, S) ==
    IF S = {} THEN {<< >>}
    ELSE UNION {
        {<<Item(store, i)>> \o rest : rest \in SortedListsMutant(store, S \ {i})} :
            i \in {j \in S : \A k \in S : j <= k}}
RECURSIVE SortedLists(_, _)
SortedLists(store, S) ==
    IF S = {} THEN {<< >>}
    ELSE UNION {
        {<<Item(store, i)>> \o rest : rest \in SortedLists(store, S \ {i})} :
            i \in {j \in S : \A k \in S : store[j].createdAt.n >= store[k].createdAt.n}}

(* ------------------------------ responses ----------------------------- *)
\* NextResponse.json({success, data | error}, {status}).
Response(op, id, body, status, data, error) ==
    [op |-> op, id |-> id, body |-> body, status |-> status,
     success |-> (error = ""), data |-> data, error |-> error]

NoRequest == Response("none", Absent, NoBody, 0, << >>, "")


(* ------------------------------ handlers ------------------------------ *)
\* `up` is whether dbConnect() and the store call get through; when it is
\* FALSE the await throws and the handler's catch answers.

\* GET /api/todos
ListTodosMutant(up) ==
    /\ \E l \in SortedLists(todos, DOMAIN todos) :
          last' = IF up THEN Response("LIST", Absent, NoBody, 200, l, "")
                  ELSE Response("LIST", Absent, NoBody, 200, << >>, "Failed to fetch todos")
    /\ UNCHANGED <<todos, now>>
\* GET /api/todos
ListTodos(up) ==
    /\ \E l \in SortedLists(todos, DOMAIN todos) :
          last' = IF up THEN Response("LIST", Absent, NoBody, 200, l, "")
                  ELSE Response("LIST", Absent, NoBody, 500, << >>, "Failed to fetch todos")
    /\ UNCHANGED <<todos, now>>

\* POST /api/todos
\* The ObjectId g the driver generates is one no stored document has.
CreateTodo(body, up) ==
    \E g \in IF Ids \ DOMAIN todos = {} THEN {0} ELSE Ids \ DOMAIN todos :
        LET r == Create(todos, body, g, now) IN
        IF up /\ body.json /\ r.ok
        THEN /\ r.id # 0
             /\ todos' = r.store
             /\ last' = Response("POST", Absent, body, 201, <<Item(r.store, r.id)>>, "")
             /\ UNCHANGED now
        ELSE /\ last' = Response("POST", Absent, body, 400, << >>, "Failed to create todo")
             /\ UNCHANGED <<todos, now>>

\* GET /api/todos/[id]
GetTodo(id, up) ==
    LET i == CastObjectId(id) IN
    /\ last' = IF ~up \/ i = CastError
               THEN Response("GET", id, NoBody, 500, << >>, "Failed to fetch todo")
               ELSE IF i.n \notin DOMAIN todos
               THEN Response("GET", id, NoBody, 404, << >>, "Todo not found")
               ELSE Response("GET", id, NoBody, 200, <<Item(todos, i.n)>>, "")
    /\ UNCHANGED <<todos, now>>

\* PUT /api/todos/[id]
UpdateTodo(id, body, up) ==
    LET i == CastObjectId(id)
        u == CastUpdate(body, now)
        r == FindOneAndUpdate(todos, i.n, u)
    IN  IF ~up \/ ~body.json \/ i = CastError \/ ~UpdateValidators(u) \/ r.res = "error"
        THEN /\ last' = Response("PUT", id, body, 400, << >>, "Failed to update todo")
             /\ UNCHANGED <<todos, now>>
        ELSE IF r.res = "null"
        THEN /\ last' = Response("PUT", id, body, 404, << >>, "Todo not found")
             /\ UNCHANGED <<todos, now>>
        ELSE /\ todos' = r.store
             /\ last' = Response("PUT", id, body, 200, <<Item(r.store, i.n)>>, "")
             /\ UNCHANGED now

\* DELETE /api/todos/[id]
DeleteTodoMutant(id, up) ==
    LET i == CastObjectId(id)
        r == FindOneAndDelete(todos, i.n)
    IN  IF i = CastError \/ (~up /\ r.res = "null")
        THEN /\ last' = Response("DELETE", id, NoBody, 500, << >>, "Failed to delete todo")
             /\ UNCHANGED <<todos, now>>
        ELSE IF r.res = "null"
        THEN /\ last' = Response("DELETE", id, NoBody, 404, << >>, "Todo not found")
             /\ UNCHANGED <<todos, now>>
        ELSE /\ todos' = r.store
             /\ last' = IF up THEN Response("DELETE", id, NoBody, 200, << >>, "")
                        ELSE Response("DELETE", id, NoBody, 500, << >>, "Failed to delete todo")
             /\ UNCHANGED now
\* DELETE /api/todos/[id]
DeleteTodo(id, up) ==
    LET i == CastObjectId(id)
        r == FindOneAndDelete(todos, i.n)
    IN  IF ~up \/ i = CastError
        THEN /\ last' = Response("DELETE", id, NoBody, 500, << >>, "Failed to delete todo")
             /\ UNCHANGED <<todos, now>>
        ELSE IF r.res = "null"
        THEN /\ last' = Response("DELETE", id, NoBody, 404, << >>, "Todo not found")
             /\ UNCHANGED <<todos, now>>
        ELSE /\ todos' = r.store
             /\ last' = Response("DELETE", id, NoBody, 200, << >>, "")
             /\ UNCHANGED now

\* GET /api/health: a fixed payload built from the clock alone.  The body has
\* no success, data or error field.  The catch branch (503 'unhealthy') needs
\* NextResponse.json or Date to throw, which neither does.
HealthResponseMutant(t) ==
    [op |-> "HEALTH", id |-> Absent, body |-> NoBody,
     status |-> IF storeUp THEN 200 ELSE 503,
     health |-> IF storeUp THEN "healthy" ELSE "unhealthy",
     timestamp |-> Date(t), service |-> "todo-app"]
HealthResponse(t) ==
    [op |-> "HEALTH", id |-> Absent, body |-> NoBody, status |-> 200,
     health |-> "healthy", timestamp |-> Date(t), service |-> "todo-app"]

HealthCheck ==
    /\ last' = HealthResponse(now)
    /\ UNCHANGED <<todos, now>>

\* dbConnect(): the cached handle when there is one; otherwise a connection
\* is made and cached, which fails when the store cannot be reached.
DbConnect ==
    /\ conn' = IF conn = "cached" \/ storeUp THEN "cached" ELSE conn
    /\ UNCHANGED storeUp

\* The response reaches the client; the next request follows.
Deliver ==
    /\ last # NoRequest
    /\ last' = NoRequest
    /\ UNCHANGED <<todos, now>>

\* The store's clock (Date.now()) advances between requests.
Tick ==
    /\ last = NoRequest
    /\ now < MaxTime
    /\ now' = now + 1
    /\ UNCHANGED <<todos, last>>

(* ------------------------- requests in progress ----------------------- *)
Slots == 1..MaxRequests

\* A slot: the request (op, id, body), how far its handler is ("free": no
\* request; "prepared": the store command is built and on its way; "done": the
\* response is made), the clock reading the command carries, and the response.
Slot(op, id, body, pc, ts, resp) ==
    [op |-> op, id |-> id, body |-> body, pc |-> pc, ts |-> ts, resp |-> resp]
FreeSlot == Slot("none", Absent, NoBody, "free", 0, NoRequest)

(* ------------------------------ the page ------------------------------ *)
CallSlots == 1..MaxCalls

\* A call of a handler of the page: kind is "load" (fetchTodos), "add",
\* "toggle" or "delete"; id and body are what it sends; snapshot is the list
\* `todos` of the render the handler belongs to; stage is "sent" while the
\* fetch is awaited, "answered" when a response has arrived, "threw" when the
\* fetch has thrown, "free" when there is no call.
Call(kind, id, body, snapshot, stage, resp) ==
    [kind |-> kind, id |-> id, body |-> body, snapshot |-> snapshot,
     stage |-> stage, resp |-> resp]
FreeCall == Call("none", Absent, NoBody, << >>, "free", NoRequest)

\* No page is open.
NoPage ==
    /\ view = << >>
    /\ loading = TRUE
    /\ calls = [c \in CallSlots |-> FreeCall]
    /\ console = << >>

(* ------------------------------ the form ------------------------------ *)
\* useState('') of title and of description.
EmptyForm == [title |-> Str("", 0), description |-> Str("", 0)]

(* ---------------------------- the deployment -------------------------- *)
\* The two Terraform files of the repository that carry a startup script and
\* a health check: infrastructure/infrastructure.tf, and the infrastructure.tf
\* listed after the README in components/TodoItem.tsx (from line 815).
TerraformFiles == {"infrastructure/infrastructure.tf", "components/TodoItem.tsx"}

\* The startup script is not running.  ELAPSED, MONGODB_HEALTH and APP_HEALTH
\* are its shell variables, warned whether it printed its timeout warning,
\* and failed the command that made it exit ("" when none did).
ScriptOff ==
    [pc |-> "off", ELAPSED |-> 0, MONGODB_HEALTH |-> "", APP_HEALTH |-> "",
     warned |-> FALSE, failed |-> ""]

\* A new VM: no Docker, no Docker Compose, no clone of the repository, no
\* image and no container.  repo, image and code are "none", "old" or "new":
\* the commit the clone, the application image and the running container
\* are of, "new" being the one pushed last.
FreshVm ==
    [docker |-> FALSE, compose |-> FALSE, repo |-> "none", image |-> "none",
     app |-> "none", code |-> "none"]

\* The health check has sent no probe yet.
NoProbes == [health |-> "unknown", successes |-> 0, failures |-> 0]

\* Nothing is deployed.
NoDeployment ==
    /\ tf = "infrastructure/infrastructure.tf"
    /\ script = ScriptOff
    /\ vm = FreshVm
    /\ lb = NoProbes

(* --------------------------- specification ---------------------------- *)
Init ==
    /\ todos = << >>
    /\ now = 0
    /\ last = NoRequest
    /\ storeUp = TRUE
    /\ conn = "none"
    /\ reqs = [r \in Slots |-> FreeSlot]
    /\ base = << >>
    /\ NoPage
    /\ form = EmptyForm
    /\ NoDeployment

Idle == last = NoRequest

List == Idle /\ ListTodos(TRUE) /\ DbConnect /\ UNCHANGED <<concurrent, page, form, deployment>>
Post == Idle /\ (\E body \in Bodies : CreateTodo(body, TRUE)) /\ DbConnect /\ UNCHANGED <<concurrent, page, form, deployment>>
Get == Idle /\ (\E id \in PathIds : GetTodo(id, TRUE)) /\ DbConnect /\ UNCHANGED <<concurrent, page, form, deployment>>
Put ==
    Idle /\ (\E id \in PathIds, body \in Bodies : UpdateTodo(id, body, TRUE))
         /\ DbConnect /\ UNCHANGED <<concurrent, page, form, deployment>>
Delete == Idle /\ (\E id \in PathIds : DeleteTodo(id, TRUE)) /\ DbConnect /\ UNCHANGED <<concurrent, page, form, deployment>>
Health == Idle /\ HealthCheck /\ UNCHANGED <<persistence, concurrent, page, form, deployment>>
Delivered == Deliver /\ UNCHANGED <<persistence, concurrent, page, form, deployment>>
ClockTick == Tick /\ UNCHANGED <<persistence, concurrent, page, form, deployment>>

Next == List \/ Post \/ Get \/ Put \/ Delete \/ Health \/ Delivered \/ ClockTick

\* The service with the store reachable, one request at a time.
Spec == Init /\ [][Next]_vars


(* ------------------------- vocabulary of the claims ------------------- *)
\* The path id names a stored document.
Matches(store, id) == id.k = "oid" /\ id.n \in DOMAIN store

\* A title of 1..200 characters.
TitleOk(v) == v.k = "str" /\ v.n >= 1 /\ v.n <= TitleMaxLength
\* A description that is absent or of at most 1000 characters.
DescriptionOk(v) == v.k = "absent" \/ (v.k = "str" /\ v.n <= DescriptionMaxLength)

\* A valid creation input: the three fields of the form, and no _id.
ValidCreateInput(b) ==
    /\ b.json
    /\ TitleOk(b.title)
    /\ DescriptionOk(b.description)
    /\ b.completed.k \in {"absent", "bool"}
    /\ b._id.k = "absent"

\* The content fields a body supplies.
ContentFields == {"title", "description", "completed"}
Supplied(b) == {f \in ContentFields : b[f].k # "absent"}

\* Every document but i is the same in both stores.
OthersSame(s1, s2, i) ==
    \A j \in (DOMAIN s1 \cup DOMAIN s2) \ {i} :
        j \in DOMAIN s1 /\ j \in DOMAIN s2 /\ s1[j] = s2[j]

(* ------------------------------- C1 ----------------------------------- *)
\* C1: a POST with a valid creation input answers 201 with the created todo,
\* stored under a new id with title, description and completed as given
\* (completed false when omitted) and updatedAt = createdAt; a GET of a stored
\* id answers 200 with the stored todo; and only a successful PUT or DELETE of
\* an id changes or removes its todo.  So the GET that follows the create with
\* no update or delete of the id in between returns the created values.
C1_CreateThenGet ==
    [][/\ (last'.op = "POST" /\ ValidCreateInput(last'.body)) =>
            /\ last'.status = 201 /\ last'.success /\ Len(last'.data) = 1
            /\ LET d == last'.data[1]
                   b == last'.body
               IN  /\ d._id.k = "oid"
                   /\ d._id.n \notin DOMAIN todos
                   /\ d._id.n \in DOMAIN todos'
                   /\ Item(todos', d._id.n) = d
                   /\ d.title = b.title
                   /\ d.description = b.description
                   /\ d.completed = IF b.completed.k = "absent" THEN Bool(FALSE)
                                    ELSE b.completed
                   /\ d.createdAt.k = "date"
                   /\ d.updatedAt = d.createdAt
       /\ (last'.op = "GET" /\ Matches(todos, last'.id)) =>
            /\ last'.status = 200 /\ last'.success
            /\ last'.data = <<Item(todos, last'.id.n)>>
            /\ todos' = todos
       /\ \A i \in DOMAIN todos :
            (i \notin DOMAIN todos' \/ todos'[i] # todos[i]) =>
                /\ last'.op \in {"PUT", "DELETE"}
                /\ last'.id = Oid(i)
                /\ last'.status = 200
      ]_vars

\* A GET has returned a todo as it was created at an earlier instant, with
\* completed defaulted to false.
C1_Witness ==
    /\ last.op = "GET" /\ last.status = 200
    /\ last.data[1].completed = Bool(FALSE)
    /\ last.data[1].title = Str(" ", 1)
    /\ last.data[1].description = Str("a", DescriptionMaxLength)
    /\ last.data[1].updatedAt = last.data[1].createdAt
    /\ last.data[1].createdAt.n < now

(* ------------------------------- C2 ----------------------------------- *)
\* C2: a POST whose title is missing, empty or longer than 200 characters, or
\* whose description is longer than 1000 characters, answers 400 and leaves
\* the collection as it was.
C2_InvalidCreateRejected ==
    [][(/\ last'.op = "POST"
        /\ \/ last'.body.title.k = "absent"
           \/ (last'.body.title.k = "str" /\ last'.body.title.n = 0)
           \/ (last'.body.title.k = "str" /\ last'.body.title.n > TitleMaxLength)
           \/ (last'.body.description.k = "str"
               /\ last'.body.description.n > DescriptionMaxLength))
       => /\ last'.status = 400
          /\ ~last'.success
          /\ todos' = todos
          /\ \A l \in SortedLists(todos', DOMAIN todos') : Len(l) = Cardinality(DOMAIN todos)
      ]_vars

\* A POST with a title of 201 characters was refused while a todo is stored.
C2_Witness ==
    /\ last.op = "POST" /\ last.status = 400
    /\ last.body.title = Str("a", TitleMaxLength + 1)
    /\ last.body.description.k = "absent"
    /\ DOMAIN todos # {}


(* ------------------------------- C3 ----------------------------------- *)
\* C3: every stored todo has a title that is non-empty after trimming and of
\* at most 200 characters, and a description that is absent or of at most
\* 1000 characters.
C3_TitleNonBlank ==
    \A i \in DOMAIN todos :
        /\ todos[i].title.k = "str"
        /\ Trim(todos[i].title).n > 0
        /\ todos[i].title.n <= TitleMaxLength
        /\ \/ todos[i].description.k \in {"absent", "null"}
           \/ (todos[i].description.k = "str"
               /\ todos[i].description.n <= DescriptionMaxLength)

(* ------------------------------- C4 ----------------------------------- *)
\* C4: the id of a todo is assigned by the store and never changes: a POST
\* whose body carries an _id does not create its todo under that _id, and a
\* PUT keeps the ids of the collection as they were.
C4_IdAssignedByStore ==
    [][/\ (last'.op = "POST" /\ last'.status = 201) =>
            last'.data[1]._id # last'.body._id
       /\ (last'.op = "PUT" /\ last'.status = 200) =>
            /\ DOMAIN todos' = DOMAIN todos
            /\ last'.data[1]._id = last'.id
      ]_vars

(* ------------------------------- C5 ----------------------------------- *)
\* C5: createdAt of a stored todo never changes after its creation, and
\* updatedAt >= createdAt in every stored todo.
C5_Timestamps ==
    [][/\ \A i \in DOMAIN todos' :
            /\ todos'[i].createdAt.k = "date"
            /\ todos'[i].updatedAt.k = "date"
            /\ todos'[i].updatedAt.n >= todos'[i].createdAt.n
       /\ \A i \in DOMAIN todos \cap DOMAIN todos' :
            todos'[i].createdAt = todos[i].createdAt
      ]_vars

(* ------------------------------- C6 ----------------------------------- *)
\* C6: every stored todo has a completed field that is true or false.
C6_CompletedBoolean ==
    \A i \in DOMAIN todos : todos[i].completed.k = "bool"


(* ------------------------------- C7 ----------------------------------- *)
\* The value a supplied content field has once the schema has cast it.
CastField(f, v) == IF f = "completed" THEN CastBoolean(v) ELSE CastString(v)

\* What a successful PUT does besides updatedAt: exactly the supplied fields
\* take the supplied values, the other fields and the other todos stay, and
\* the response carries the todo after the change.
MergeUpdate ==
    (last'.op = "PUT" /\ last'.status = 200) =>
        LET i == last'.id.n
            b == last'.body
        IN  /\ Matches(todos, last'.id)
            /\ i \in DOMAIN todos'
            /\ \A f \in Supplied(b) : todos'[i][f] = CastField(f, b[f])
            /\ \A f \in ContentFields \ Supplied(b) : todos'[i][f] = todos[i][f]
            /\ todos'[i].createdAt = todos[i].createdAt
            /\ OthersSame(todos, todos', i)
            /\ last'.success
            /\ last'.data = <<Item(todos', i)>>

\* C7 as claimed: a successful PUT is a merge of the supplied fields, and
\* updatedAt of the target is strictly greater than before.
C7_UpdatedAtStrictlyGreater ==
    [][/\ MergeUpdate
       /\ (last'.op = "PUT" /\ last'.status = 200) =>
            todos'[last'.id.n].updatedAt.n > todos[last'.id.n].updatedAt.n
      ]_vars

\* C7 (amended): a successful PUT is a merge of the supplied fields, and
\* updatedAt of the target is set to the clock's time at the update.
C7_MergeUpdate ==
    [][/\ MergeUpdate
       /\ (last'.op = "PUT" /\ last'.status = 200) =>
            todos'[last'.id.n].updatedAt = Date(now)
      ]_vars

\* A PUT of completed alone has answered 200 where two todos are stored, the
\* target keeping its title and description and getting a later updatedAt.
C7_Witness ==
    /\ last.op = "PUT" /\ last.status = 200
    /\ Supplied(last.body) = {"completed"}
    /\ last.body.completed = Bool(TRUE)
    /\ Cardinality(DOMAIN todos) = 2
    /\ last.data[1].completed = Bool(TRUE)
    /\ last.data[1].title = Str("a", TitleMaxLength)
    /\ last.data[1].description = Str("a", DescriptionMaxLength)
    /\ last.data[1].updatedAt.n > last.data[1].createdAt.n

(* ------------------------------- C8 ----------------------------------- *)
\* C8: GET, PUT and DELETE on an id that matches no stored todo answer 404
\* 'Todo not found', whatever the body, and leave the store unchanged.
C8_AbsentIdNotFound ==
    [][(last'.op \in {"GET", "PUT", "DELETE"} /\ ~Matches(todos, last'.id)) =>
            /\ last'.status = 404
            /\ last'.error = "Todo not found"
            /\ ~last'.success
            /\ todos' = todos
      ]_vars

(* ------------------------------- C9 ----------------------------------- *)
\* C9: GET with a malformed id answers 404, as a well-formed id that matches
\* no document does.
C9_MalformedIdNotFound ==
    (last.op = "GET" /\ CastObjectId(last.id) = CastError) => last.status = 404

(* ------------------------------- C10 ---------------------------------- *)
\* A successful DELETE answers 200 with an empty payload and removes exactly
\* the matching todo; a todo appears under an id only by a successful POST.
DeleteRemovesOne ==
    /\ (last'.op = "DELETE" /\ last'.status = 200) =>
            /\ Matches(todos, last'.id)
            /\ last'.success /\ last'.data = << >>
            /\ DOMAIN todos' = DOMAIN todos \ {last'.id.n}
            /\ OthersSame(todos, todos', last'.id.n)
    /\ \A i \in Ids :
            (i \notin DOMAIN todos /\ i \in DOMAIN todos') =>
                /\ last'.op = "POST" /\ last'.status = 201
                /\ last'.data[1]._id = Oid(i)

\* A well-formed id with no todo (as after its delete).
Gone(id) == id.k = "oid" /\ id.n \notin DOMAIN todos

NotFound ==
    /\ last'.status = 404
    /\ last'.error = "Todo not found"
    /\ todos' = todos

\* The body of a PUT passes casting and the update validators.
UpdateBodyOk(b) ==
    /\ b.json
    /\ b.title.k = "absent" \/ TitleOk(b.title)
    /\ DescriptionOk(b.description)
    /\ b.completed.k \in {"absent", "null", "bool"}
       \/ (b.completed.k = "num" /\ b.completed.n \in {0, 1})
    /\ b._id.k \in {"absent", "oid"}

C11_ListAllNewestFirst ==
    [][last'.op = "LIST" =>
            /\ last'.status = 200 /\ last'.success
            /\ Len(last'.data) = Cardinality(DOMAIN todos)
            /\ {last'.data[k]._id : k \in 1..Len(last'.data)}
                   = {Oid(i) : i \in DOMAIN todos}
            /\ \A k \in 1..Len(last'.data) :
                   last'.data[k] = Item(todos, last'.data[k]._id.n)
            /\ \A k, l \in 1..Len(last'.data) :
                   k < l => last'.data[k].createdAt.n >= last'.data[l].createdAt.n
            /\ todos' = todos
      ]_vars

\* A list of two todos was returned, the one created later first, where the
\* later one has the smaller id and the earlier one has been updated since.
C11_Witness ==
    /\ last.op = "LIST" /\ last.status = 200
    /\ Len(last.data) = 2
    /\ last.data[1].createdAt.n > last.data[2].createdAt.n
    /\ last.data[1]._id.n < last.data[2]._id.n
    /\ last.data[2].updatedAt.n > last.data[2].createdAt.n

(* ------------------------------- C12 ---------------------------------- *)
\* A supplied field of the body breaks its constraint: the title is empty or
\* longer than 200 characters, or the description is longer than 1000.
ViolatesConstraint(b) ==
    \/ (b.title.k = "str" /\ (b.title.n = 0 \/ b.title.n > TitleMaxLength))
    \/ (b.description.k = "str" /\ b.description.n > DescriptionMaxLength)

\* C12: a PUT in which a supplied field breaks its constraint answers 400 and
\* changes nothing: every stored todo, the target with its valid fields and
\* its updatedAt included, is as before.
C12_InvalidUpdateAllOrNothing ==
    [][(last'.op = "PUT" /\ ViolatesConstraint(last'.body)) =>
            /\ last'.status = 400
            /\ ~last'.success
            /\ todos' = todos
      ]_vars

\* A PUT on a stored todo with a valid title, a valid completed and a
\* description of 1001 characters was refused at a later instant than the
\* todo's last write.
C12_Witness ==
    /\ last.op = "PUT" /\ last.status = 400
    /\ Matches(todos, last.id)
    /\ last.body.title = Str("a", TitleMaxLength)
    /\ last.body.completed = Bool(TRUE)
    /\ last.body.description = Str("a", DescriptionMaxLength + 1)
    /\ todos[last.id.n].title = Str(" ", 1)
    /\ todos[last.id.n].completed = Bool(FALSE)
    /\ todos[last.id.n].updatedAt.n < now

(* ----------------------- the service with outages --------------------- *)
\* The bodies sent while the store comes and goes: a valid one, one with an
\* empty title, one with completed alone, one with a description that is too
\* long, one with a client-chosen _id, and one that is no JSON.
OutageBodies ==
    {Body(TRUE, Str("a", TitleMaxLength), Absent, Absent, Absent, Absent, Absent),
     Body(TRUE, Str("a", 0), Absent, Absent, Absent, Absent, Absent),
     Body(TRUE, Absent, Absent, Bool(TRUE), Absent, Absent, Absent),
     Body(TRUE, Str("a", TitleMaxLength), Str("a", DescriptionMaxLength + 1), Absent,
          Absent, Absent, Absent),
     Body(TRUE, Str("a", TitleMaxLength), Absent, Absent, Oid(1), Absent, Absent),
     NotJson}

\* The store becomes unreachable, or reachable again, between two requests.
StoreFails ==
    /\ Idle /\ storeUp
    /\ storeUp' = FALSE
    /\ UNCHANGED <<todos, now, last, conn, concurrent, page, form, deployment>>
StoreRecovers ==
    /\ Idle /\ ~storeUp
    /\ storeUp' = TRUE
    /\ UNCHANGED <<todos, now, last, conn, concurrent, page, form, deployment>>

\* The process of the service restarts (a new container): the cached handle
\* is gone and the next request connects again.
ProcessRestarts ==
    /\ Idle /\ conn = "cached"
    /\ conn' = "none"
    /\ UNCHANGED <<todos, now, last, storeUp, concurrent, page, form, deployment>>

\* The handlers, each awaiting dbConnect() and its store call against the
\* store as it is.
ListDuringOutage == Idle /\ ListTodos(storeUp) /\ DbConnect /\ UNCHANGED <<concurrent, page, form, deployment>>
PostDuringOutage ==
    Idle /\ (\E body \in OutageBodies : CreateTodo(body, storeUp)) /\ DbConnect
         /\ UNCHANGED <<concurrent, page, form, deployment>>
GetDuringOutage == Idle /\ (\E id \in PathIds : GetTodo(id, storeUp)) /\ DbConnect /\ UNCHANGED <<concurrent, page, form, deployment>>
PutDuringOutage ==
    Idle /\ (\E id \in PathIds, body \in OutageBodies : UpdateTodo(id, body, storeUp))
         /\ DbConnect /\ UNCHANGED <<concurrent, page, form, deployment>>
DeleteDuringOutage == Idle /\ (\E id \in PathIds : DeleteTodo(id, storeUp)) /\ DbConnect /\ UNCHANGED <<concurrent, page, form, deployment>>

InitOutage ==
    /\ todos = << >>
    /\ now = 0
    /\ last = NoRequest
    /\ storeUp \in BOOLEAN
    /\ conn = "none"
    /\ reqs = [r \in Slots |-> FreeSlot]
    /\ base = << >>
    /\ NoPage
    /\ form = EmptyForm
    /\ NoDeployment

NextOutage ==
    \/ ListDuringOutage \/ PostDuringOutage \/ GetDuringOutage
    \/ PutDuringOutage \/ DeleteDuringOutage
    \/ Health \/ Delivered \/ ClockTick
    \/ StoreFails \/ StoreRecovers \/ ProcessRestarts

\* The service, one request at a time, with a store that can be unreachable.
SpecOutage == InitOutage /\ [][NextOutage]_vars

TodoOps == {"LIST", "POST", "GET", "PUT", "DELETE"}

(* ------------------------------- C13 ---------------------------------- *)
\* C13: a request that fails because the store cannot be reached is answered
\* with a server error (500 or 503), on every todo endpoint: in particular a
\* POST or PUT that meets an unreachable store is not answered with the 400 of
\* invalid input.
C13_StoreFailureIsServerError ==
    [][(last'.op \in TodoOps /\ ~storeUp) =>
            /\ ~last'.success
            /\ last'.status \in {500, 503}
      ]_vars

(* ------------------------------- C14 ---------------------------------- *)
\* The envelope of one response: success is a boolean; with success the
\* status is 2xx and there is no error message; without it the status is 4xx
\* or 5xx, there is an error message and no payload.
Envelope(r) ==
    /\ "success" \in DOMAIN r
    /\ r.success \in BOOLEAN
    /\ r.success => (r.status \in 200..299 /\ r.error = "")
    /\ ~r.success => (r.status \in 400..599 /\ r.error # "" /\ r.data = << >>)

\* C14 as claimed: every response of every endpoint, GET /health included,
\* has the envelope.
C14_EveryResponseHasEnvelope ==
    last.op # "none" => Envelope(last)

\* C14 (amended): every response of the five todo endpoints has the envelope;
\* the response of GET /health has status, timestamp and service and no
\* success, data or error field.
C14_TodoResponsesHaveEnvelope ==
    /\ last.op \in TodoOps => Envelope(last)
    /\ last.op = "HEALTH" =>
            DOMAIN last \cap {"success", "data", "error"} = {}
    /\ last.op \in TodoOps \cup {"HEALTH", "none"}

\* A list was refused with the failure envelope while the store, holding a
\* todo, could not be reached.
C14_Witness ==
    /\ last.op = "LIST" /\ last.status = 500
    /\ ~storeUp
    /\ DOMAIN todos # {}

(* ------------------------------- C15 ---------------------------------- *)
\* C15: GET /health answers 200 with status 'healthy', a timestamp and
\* service 'todo-app' whatever the state of the persistence layer, and
\* changes neither the store nor the connection.
C15_HealthIsShallow ==
    [][last'.op = "HEALTH" =>
            /\ last'.status = 200
            /\ last'.health = "healthy"
            /\ last'.timestamp = Date(now)
            /\ last'.service = "todo-app"
            /\ todos' = todos
            /\ conn' = conn
            /\ storeUp' = storeUp
      ]_vars

\* A probe was answered while the store had never been reached.
C15_Witness ==
    /\ last.op = "HEALTH" /\ last.status = 200
    /\ ~storeUp
    /\ conn = "none"

ListOutcomes(store) ==
    {[store |-> store, resp |-> Response("LIST", Absent, NoBody, 200, l, "")] :
        l \in SortedLists(store, DOMAIN store)}

CreateOutcome(store, body, g, t) ==
    LET r == Create(store, body, g, t) IN
    IF body.json /\ r.ok
    THEN [store |-> r.store,
          resp |-> Response("POST", Absent, body, 201, <<Item(r.store, r.id)>>, "")]
    ELSE [store |-> store,
          resp |-> Response("POST", Absent, body, 400, << >>, "Failed to create todo")]

\* The generated id is one no document has; 0 stands for it when the body
\* brings its own _id (and is no id a document is stored under).
CreateOutcomes(store, body, t) ==
    {o \in {CreateOutcome(store, body, g, t) : g \in (Ids \ DOMAIN store) \cup {0}} :
        0 \notin DOMAIN o.store}

GetOutcome(store, id) ==
    LET i == CastObjectId(id) IN
    [store |-> store,
     resp |-> IF i = CastError
              THEN Response("GET", id, NoBody, 500, << >>, "Failed to fetch todo")
              ELSE IF i.n \notin DOMAIN store
              THEN Response("GET", id, NoBody, 404, << >>, "Todo not found")
              ELSE Response("GET", id, NoBody, 200, <<Item(store, i.n)>>, "")]

UpdateOutcome(store, id, body, t) ==
    LET i == CastObjectId(id)
        u == CastUpdate(body, t)
        r == FindOneAndUpdate(store, i.n, u)
    IN  IF ~body.json \/ i = CastError \/ ~UpdateValidators(u) \/ r.res = "error"
        THEN [store |-> store,
              resp |-> Response("PUT", id, body, 400, << >>, "Failed to update todo")]
        ELSE IF r.res = "null"
        THEN [store |-> store,
              resp |-> Response("PUT", id, body, 404, << >>, "Todo not found")]
        ELSE [store |-> r.store,
              resp |-> Response("PUT", id, body, 200, <<Item(r.store, i.n)>>, "")]

DeleteOutcome(store, id) ==
    LET i == CastObjectId(id)
        r == FindOneAndDelete(store, i.n)
    IN  IF i = CastError
        THEN [store |-> store,
              resp |-> Response("DELETE", id, NoBody, 500, << >>, "Failed to delete todo")]
        ELSE IF r.res = "null"
        THEN [store |-> store,
              resp |-> Response("DELETE", id, NoBody, 404, << >>, "Todo not found")]
        ELSE [store |-> r.store,
              resp |-> Response("DELETE", id, NoBody, 200, << >>, "")]

Outcomes(store, q, t) ==
    CASE q.op = "LIST" -> ListOutcomes(store)
      [] q.op = "POST" -> CreateOutcomes(store, q.body, t)
      [] q.op = "GET" -> {GetOutcome(store, q.id)}
      [] q.op = "PUT" -> {UpdateOutcome(store, q.id, q.body, t)}
      [] q.op = "DELETE" -> {DeleteOutcome(store, q.id)}

\* The handler throws before any store command is sent: the body is no JSON,
\* the id or a field does not cast, or a validator refuses the document.
FailsBeforeStore(q) ==
    CASE q.op = "LIST" -> FALSE
      [] q.op = "POST" -> ~q.body.json \/ ~ValidateDocument(NewDocument(q.body))
      [] q.op = "PUT" ->
            \/ ~q.body.json
            \/ CastObjectId(q.id) = CastError
            \/ ~UpdateValidators(CastUpdate(q.body, 0))
      [] q.op \in {"GET", "DELETE"} -> CastObjectId(q.id) = CastError

\* The requests sent concurrently.
TitleA == Str("a", 1)
TitleB == Str("a", TitleMaxLength)
ConcurrentBodies ==
    {Body(TRUE, TitleA, Absent, Absent, Absent, Absent, Absent),
     Body(TRUE, TitleB, Absent, Absent, Absent, Absent, Absent),
     Body(TRUE, Absent, Absent, Bool(TRUE), Absent, Absent, Absent),
     Body(TRUE, Str("a", 0), Absent, Absent, Absent, Absent, Absent),
     Body(TRUE, TitleA, Absent, Absent, Oid(1), Absent, Absent)}
Request(op, id, body) == [op |-> op, id |-> id, body |-> body]
ConcurrentRequests ==
    {Request("LIST", Absent, NoBody)}
    \cup {Request("POST", Absent, b) : b \in ConcurrentBodies}
    \cup {Request("PUT", Oid(i), b) : i \in Ids, b \in ConcurrentBodies}
    \cup {Request(op, id, NoBody) : op \in {"GET", "DELETE"}, id \in PathIds}

InProgress(pc) == {r \in Slots : reqs[r].pc = pc}

\* A request arrives and its handler runs up to its store call: dbConnect(),
\* request.json(), and inside the Todo call the casts, the validators and the
\* timestamps, read from the clock now.  A handler that throws on the way
\* answers at once.  Slots fill in order, and a POST is taken only while an
\* ObjectId is left for it.
Start(r, q) ==
    /\ reqs[r].pc = "free"
    /\ \A k \in Slots : k < r => reqs[k].pc # "free"
    /\ q.op = "POST" =>
           Cardinality(Ids \ DOMAIN todos)
               > Cardinality({k \in InProgress("prepared") : reqs[k].op = "POST"})
    /\ reqs' = [reqs EXCEPT ![r] =
                  IF FailsBeforeStore(q)
                  THEN Slot(q.op, q.id, q.body, "done", now,
                            (CHOOSE o \in Outcomes(todos, q, now) : TRUE).resp)
                  ELSE Slot(q.op, q.id, q.body, "prepared", now, NoRequest)]
    /\ DbConnect
    /\ UNCHANGED <<todos, now, last, base, page, form, deployment>>

\* The store executes the command of request r, in one step, and the handler
\* makes its response from the result.
StoreCallMutant(r) ==
    /\ reqs[r].pc = "prepared"
    /\ \E o \in Outcomes(base, reqs[r], reqs[r].ts) :
          /\ todos' = o.store
          /\ reqs' = [reqs EXCEPT ![r].pc = "done", ![r].resp = o.resp]
    /\ UNCHANGED <<now, last, persistence, base, page, form, deployment>>
StoreCall(r) ==
    /\ reqs[r].pc = "prepared"
    /\ \E o \in Outcomes(todos, reqs[r], reqs[r].ts) :
          /\ todos' = o.store
          /\ reqs' = [reqs EXCEPT ![r].pc = "done", ![r].resp = o.resp]
    /\ UNCHANGED <<now, last, persistence, base, page, form, deployment>>

\* All responses are out and no request is in progress.
Settle ==
    /\ InProgress("prepared") = {}
    /\ InProgress("done") # {}
    /\ reqs' = [r \in Slots |-> FreeSlot]
    /\ base' = todos
    /\ UNCHANGED <<todos, now, last, persistence, page, form, deployment>>

\* The clock advances at any point of the handlers' progress.
TickDuringRequests ==
    /\ now < MaxTime
    /\ now' = now + 1
    /\ UNCHANGED <<todos, last, persistence, concurrent, page, form, deployment>>

StartRequest == \E r \in Slots, q \in ConcurrentRequests : Start(r, q)
StoreCalls == \E r \in Slots : StoreCall(r)

NextConcurrent == StartRequest \/ StoreCalls \/ Settle \/ TickDuringRequests

\* The service with up to MaxRequests requests in progress at once, the
\* store reachable.
SpecConcurrent == Init /\ [][NextConcurrent]_vars

(* ------------------------------- C17 ---------------------------------- *)
\* The stores that running the requests of the slots R one at a time from
\* `store` can end in, in any order, each request giving the response it gave
\* and reading a clock that shows at least tmin and never goes back.
RECURSIVE SerialRuns(_, _, _)
SerialRuns(store, R, tmin) ==
    IF R = {} THEN {store}
    ELSE UNION {
            UNION {SerialRuns(o.store, R \ {r[1]}, r[2]) :
                     o \in {x \in Outcomes(store, reqs[r[1]], r[2]) :
                              x.resp = reqs[r[1]].resp}} :
            r \in R \X (tmin..MaxTime)}

\* The same, each request reading any clock value, earlier or later than the
\* request before it.
RECURSIVE SerialRunsAnyClock(_, _)
SerialRunsAnyClock(store, R) ==
    IF R = {} THEN {store}
    ELSE UNION {
            UNION {SerialRunsAnyClock(o.store, R \ {r[1]}) :
                     o \in {x \in Outcomes(store, reqs[r[1]], r[2]) :
                              x.resp = reqs[r[1]].resp}} :
            r \in R \X (0..MaxTime)}

\* The store changes only in the store call of one request, once per request.
SingleStoreCall ==
    /\ todos' # todos =>
           \E r \in Slots :
               /\ reqs[r].pc = "prepared" /\ reqs'[r].pc = "done"
               /\ \A k \in Slots \ {r} : reqs'[k] = reqs[k]
    /\ \A r \in Slots : reqs[r].pc = "done" => reqs'[r] \in {reqs[r], FreeSlot}

\* The update whose store call it is leaves its values in the fields it
\* supplies, whatever another update wrote there before.
LastWriteWins ==
    \A r \in Slots :
        (/\ reqs[r].pc = "prepared" /\ reqs'[r].pc = "done"
         /\ reqs[r].op = "PUT" /\ reqs'[r].resp.status = 200) =>
            \A f \in Supplied(reqs[r].body) :
                todos'[reqs[r].id.n][f] = CastField(f, reqs[r].body[f])

Calls(r) == reqs[r].pc = "prepared" /\ reqs'[r].pc = "done"

\* The requests of the round answered with the status s to the operation op.
Answered(op, s) ==
    {r \in InProgress("done") : reqs[r].op = op /\ reqs[r].resp.status = s}

FormTitles == {TitleA, Str("a", TitleMaxLength + 1)}
FormDescription == Str("a", 0)

\* !completed
Not(v) == Bool(v.n = 0)

\* The request a call sends.
RequestOf(call) ==
    Request(CASE call.kind = "load" -> "LIST"
              [] call.kind = "add" -> "POST"
              [] call.kind = "toggle" -> "PUT"
              [] call.kind = "delete" -> "DELETE",
            call.id, call.body)

\* What the catch of each handler writes with console.error.
ErrorMessage(kind) ==
    CASE kind = "load" -> "Error fetching todos:"
      [] kind = "add" -> "Error adding todo:"
      [] kind = "toggle" -> "Error toggling todo:"
      [] kind = "delete" -> "Error deleting todo:"

Awaiting(stage) == {c \in CallSlots : calls[c].stage = stage}
\* The slot a new call takes.
NextCall == CHOOSE c \in Awaiting("free") : \A d \in Awaiting("free") : c <= d

\* The ids the page has seen: an ObjectId is generated once, so a new todo
\* gets none of them.
SeenIds ==
    {view[k]._id.n : k \in DOMAIN view}
    \cup UNION {{calls[c].snapshot[k]._id.n : k \in DOMAIN calls[c].snapshot} :
                  c \in CallSlots}
FreshIds == Ids \ (DOMAIN todos \cup SeenIds)

\* The page is opened: Home mounts with an empty list, loading, and its
\* effect calls fetchTodos.
Mount ==
    /\ NoPage
    /\ calls' = [calls EXCEPT ![1] = Call("load", Absent, NoBody, << >>, "sent", NoRequest)]
    /\ UNCHANGED <<todos, now, last, persistence, concurrent, form, deployment, view, loading, console>>

\* The form is submitted with a title that passes title.trim(): handleSubmit
\* calls handleAddTodo, which sends its POST.
SubmitAdd(title) ==
    /\ ~loading
    /\ Awaiting("free") # {}
    /\ Cardinality(FreshIds)
           > Cardinality({c \in Awaiting("sent") : calls[c].kind = "add"})
    /\ calls' = [calls EXCEPT ![NextCall] =
                   Call("add", Absent,
                        Body(TRUE, title, FormDescription, Bool(FALSE), Absent, Absent, Absent),
                        view, "sent", NoRequest)]
    /\ UNCHANGED <<todos, now, last, persistence, concurrent, form, deployment, view, loading, console>>

\* The checkbox of the k-th todo shown is clicked: handleToggleTodo sends its PUT.
ClickToggle(k) ==
    /\ ~loading
    /\ Awaiting("free") # {}
    /\ calls' = [calls EXCEPT ![NextCall] =
                   Call("toggle", view[k]._id,
                        Body(TRUE, Absent, Absent, Not(view[k].completed), Absent, Absent, Absent),
                        view, "sent", NoRequest)]
    /\ UNCHANGED <<todos, now, last, persistence, concurrent, form, deployment, view, loading, console>>

\* The delete button of the k-th todo shown is clicked: handleDeleteTodo
\* sends its DELETE.
ClickDelete(k) ==
    /\ ~loading
    /\ Awaiting("free") # {}
    /\ calls' = [calls EXCEPT ![NextCall] =
                   Call("delete", view[k]._id, NoBody, view, "sent", NoRequest)]
    /\ UNCHANGED <<todos, now, last, persistence, concurrent, form, deployment, view, loading, console>>

\* The service handles the request of call c and its response arrives.
ServerAnswers(c) ==
    /\ calls[c].stage = "sent"
    /\ \E o \in Outcomes(todos, RequestOf(calls[c]), now) :
          /\ DOMAIN o.store \ DOMAIN todos \subseteq FreshIds
          /\ todos' = o.store
          /\ calls' = [calls EXCEPT ![c].stage = "answered", ![c].resp = o.resp]
    /\ DbConnect
    /\ UNCHANGED <<now, last, concurrent, form, deployment, view, loading, console>>

\* The fetch of call c throws: the request does not reach the service.
FetchThrows(c) ==
    /\ calls[c].stage = "sent"
    /\ Len(console) < MaxConsole
    /\ calls' = [calls EXCEPT ![c].stage = "threw"]
    /\ UNCHANGED <<todos, now, last, persistence, concurrent, form, deployment, view, loading, console>>

\* The list a handler passes to setTodos when its response has success true.
NewViewMutant(call) ==
    CASE call.kind = "load" -> call.resp.data
      [] call.kind = "add" -> call.snapshot \o <<call.resp.data[1]>>
      [] call.kind = "toggle" ->
            [k \in DOMAIN call.snapshot |->
                IF call.snapshot[k]._id = call.id THEN call.resp.data[1]
                ELSE call.snapshot[k]]
      [] call.kind = "delete" ->
            SelectSeq(call.snapshot, LAMBDA t : t._id # call.id)
NewView(call) ==
    CASE call.kind = "load" -> call.resp.data
      [] call.kind = "add" -> <<call.resp.data[1]>> \o call.snapshot
      [] call.kind = "toggle" ->
            [k \in DOMAIN call.snapshot |->
                IF call.snapshot[k]._id = call.id THEN call.resp.data[1]
                ELSE call.snapshot[k]]
      [] call.kind = "delete" ->
            SelectSeq(call.snapshot, LAMBDA t : t._id # call.id)

\* setLoading(false) moved from the finally to the end of the try.
ResumeMutant(c) ==
    /\ calls[c].stage \in {"answered", "threw"}
    /\ view' = IF calls[c].stage = "answered" /\ calls[c].resp.success
               THEN NewView(calls[c]) ELSE view
    /\ console' = IF calls[c].stage = "threw"
                  THEN Append(console, ErrorMessage(calls[c].kind)) ELSE console
    /\ loading' = IF calls[c].kind = "load" /\ calls[c].stage = "answered"
                  THEN FALSE ELSE loading
    /\ calls' = [calls EXCEPT ![c] = FreeCall]
    /\ UNCHANGED <<todos, now, last, persistence, concurrent, form, deployment>>

\* The handler of call c resumes after its await: with a response of success
\* true it sets the list, with another response it does nothing, and when
\* the fetch threw its catch logs; fetchTodos then clears loading.
Resume(c) ==
    /\ calls[c].stage \in {"answered", "threw"}
    /\ view' = IF calls[c].stage = "answered" /\ calls[c].resp.success
               THEN NewView(calls[c]) ELSE view
    /\ console' = IF calls[c].stage = "threw"
                  THEN Append(console, ErrorMessage(calls[c].kind)) ELSE console
    /\ loading' = IF calls[c].kind = "load" THEN FALSE ELSE loading
    /\ calls' = [calls EXCEPT ![c] = FreeCall]
    /\ UNCHANGED <<todos, now, last, persistence, concurrent, form, deployment>>

Submit == \E title \in FormTitles : SubmitAdd(title)
Toggle == \E k \in DOMAIN view : ClickToggle(k)
Remove == \E k \in DOMAIN view : ClickDelete(k)
Answer == \E c \in CallSlots : ServerAnswers(c)
Throw == \E c \in CallSlots : FetchThrows(c)
Resumes == \E c \in CallSlots : Resume(c)

NextPage ==
    Mount \/ Submit \/ Toggle \/ Remove \/ Answer \/ Throw \/ Resumes

\* The collection when the page is opened: empty, or with a todo made at
\* instant 0, on an earlier visit.
StoresBefore ==
    {<< >>,
     Create(<< >>, Body(TRUE, TitleA, FormDescription, Bool(FALSE), Absent, Absent, Absent),
            1, 0).store}

\* The page is open during the last instant of the clock.
InitPage ==
    /\ todos \in StoresBefore
    /\ now = MaxTime
    /\ last = NoRequest
    /\ storeUp = TRUE
    /\ conn = "none"
    /\ reqs = [r \in Slots |-> FreeSlot]
    /\ base = << >>
    /\ NoPage
    /\ form = EmptyForm
    /\ NoDeployment

\* One page, the only client of the service, the store reachable.
SpecPage == InitPage /\ [][NextPage]_vars

(* ------------------------------- C19 ---------------------------------- *)
\* The handler of call c resumes in this step after a failure: its fetch
\* threw, or its response has success false.
ResumesAfterFailure(c) ==
    /\ calls[c].kind \in {"add", "toggle", "delete"}
    /\ calls[c].stage \in {"answered", "threw"}
    /\ calls'[c].stage = "free"
    /\ calls[c].stage = "threw" \/ ~calls[c].resp.success

\* C19: the list shown changes only when a handler resumes with a response
\* of success true (nothing is shown before the service confirms); and when
\* an add, toggle or delete fails, by a response of success false or by a
\* fetch that throws, the list shown stays as it is and the failure is
\* written to the console.
C19_FailureKeepsViewAndIsLogged ==
    [][/\ view' # view =>
            \E c \in CallSlots :
                /\ calls[c].stage = "answered" /\ calls[c].resp.success
                /\ calls'[c].stage = "free"
       /\ \A c \in CallSlots :
            ResumesAfterFailure(c) =>
                /\ view' = view
                /\ console' = Append(console, ErrorMessage(calls[c].kind))
      ]_vars

(* ------------------------------- C20 ---------------------------------- *)
\* Every handler of the page has resumed, and none of its fetches threw.
AllProcessed ==
    /\ ~loading
    /\ Awaiting("free") = CallSlots
    /\ console = << >>

\* C20: once every response is processed, the list shown holds exactly the
\* todos the service has stored, each once and with its stored completed.
C20_ViewReflectsServer ==
    AllProcessed =>
        /\ Len(view) = Cardinality(DOMAIN todos)
        /\ {<<view[k]._id, view[k].completed>> : k \in DOMAIN view}
               = {<<Oid(i), todos[i].completed>> : i \in DOMAIN todos}

(* ------------------- the startup script and the load balancer --------- *)
\* MAX_WAIT and INTERVAL of the health wait loop, in seconds.
MAX_WAIT == 180
INTERVAL == 5

\* healthy_threshold and unhealthy_threshold of the health check.
HealthyThreshold == 2
UnhealthyThreshold == 3

\* The steps of metadata_startup_script, in the order of the file.
\*   install      apt-get update, apt-get install docker.io git curl, systemctl
\*   compose      curl of the docker-compose binary, chmod +x
\*   composefile  mkdir -p /home/ubuntu/app, cat > docker-compose.yml
\*   chown        chown -R ubuntu:ubuntu /home/ubuntu/todo_infrastructure
\*   clone        git clone, or git fetch / reset / pull of an existing clone
\*   verify       the checks of the repository's directories, chown, cd
\*   pullmongo    docker-compose pull mongodb
\*   build        docker-compose build
\*   down         docker-compose down || true
\*   up           docker-compose up -d
\*   wait, warn   the health wait loop, and the warning after it
\*   status       docker-compose ps and the curl test of the application
\*   html         mkdir -p html, cat > html/index.html, cat > html/health, chown
\*   pull         docker-compose pull
\*   again        docker-compose up -d, a second time
\*   report       sleep 30, docker-compose ps, the curl test, the echo of the URL
Steps(file) ==
    IF file = "infrastructure/infrastructure.tf"
    THEN <<"install", "compose", "composefile", "chown", "build", "up",
           "html", "pull", "again", "report">>
    ELSE <<"install", "compose", "clone", "verify", "pullmongo", "build", "down",
           "up", "wait", "warn", "status", "html", "pull", "again", "report">>

Position(file, step) == CHOOSE k \in DOMAIN Steps(file) : Steps(file)[k] = step
\* The step after `step`, "done" after the last one.
After(file, step) ==
    IF Position(file, step) = Len(Steps(file)) THEN "done"
    ELSE Steps(file)[Position(file, step) + 1]
Running == script.pc \in {Steps(tf)[k] : k \in DOMAIN Steps(tf)}

\* The external command a step cannot go on without ("" when it has none):
\* when it fails the script exits, by set -e or by handle_error.
Command(step) ==
    CASE step = "install" -> "apt-get"
      [] step = "compose" -> "curl"
      [] step = "clone" -> "git"
      [] step \in {"pullmongo", "build", "up", "pull", "again"} -> "docker-compose"
      [] OTHER -> ""
ExternalCommands == {"apt-get", "curl", "git", "docker-compose"}

\* What a step that succeeds leaves on the VM.  docker-compose up -d leaves a
\* container of the current image alone and (re)creates any other.
Effect(step, m) ==
    CASE step = "install" -> [m EXCEPT !.docker = TRUE]
      [] step = "compose" -> [m EXCEPT !.compose = TRUE]
      [] step = "clone" -> [m EXCEPT !.repo = "new"]
      [] step = "build" -> [m EXCEPT !.image = m.repo]
      [] step = "down" -> [m EXCEPT !.app = "none", !.code = "none"]
      [] step \in {"up", "again"} ->
            IF m.app # "none" /\ m.code = m.image THEN m
            ELSE [m EXCEPT !.app = "starting", !.code = m.image]
      [] OTHER -> m

\* chown -R of a directory that is not there fails, and set -e ends the script.
ChownFails == script.pc = "chown" /\ vm.repo = "none"

\* The VM boots, or the script is run again: the script starts at its top.
ScriptStarts ==
    /\ script.pc \in {"off", "done", "aborted"}
    /\ script' = [ScriptOff EXCEPT !.pc = Steps(tf)[1]]
    /\ UNCHANGED <<todos, now, last, persistence, concurrent, page, form, tf, vm, lb>>

\* The current step succeeds and the script goes on to the next.
StepSucceeds ==
    /\ Running
    /\ script.pc \notin {"wait", "warn"}
    /\ ~ChownFails
    /\ vm' = Effect(script.pc, vm)
    /\ script' = [script EXCEPT !.pc = After(tf, script.pc)]
    /\ UNCHANGED <<todos, now, last, persistence, concurrent, page, form, tf, lb>>

\* The command of the current step fails and the script exits.
StepFails ==
    /\ Running
    /\ Command(script.pc) # "" \/ ChownFails
    /\ script' = [script EXCEPT !.pc = "aborted",
                                !.failed = IF ChownFails THEN "chown"
                                           ELSE Command(script.pc)]
    /\ UNCHANGED <<todos, now, last, persistence, concurrent, page, form, tf, vm, lb>>

\* What docker inspect reports as .State.Health.Status, "starting" standing
\* also for a failed inspect.  The application's check (a request to port
\* 3000) passes only when the application serves.
HealthStatuses == {"starting", "healthy", "unhealthy"}

\* One pass of the while loop: both statuses are read; when both are
\* 'healthy' the loop is left by break, otherwise the script sleeps INTERVAL
\* and adds it to ELAPSED.
PollMutant ==
    /\ script.pc = "wait"
    /\ script.ELAPSED < MAX_WAIT
    /\ \E m, a \in HealthStatuses :
          /\ a = "healthy" => vm.app = "serving"
          /\ script' = IF m = "healthy" /\ a = "healthy"
                       THEN [script EXCEPT !.MONGODB_HEALTH = m, !.APP_HEALTH = a,
                                           !.pc = "warn"]
                       ELSE [script EXCEPT !.MONGODB_HEALTH = m, !.APP_HEALTH = a,
                                           !.ELAPSED = MAX_WAIT]
    /\ UNCHANGED <<todos, now, last, persistence, concurrent, page, form, tf, vm, lb>>
Poll ==
    /\ script.pc = "wait"
    /\ script.ELAPSED < MAX_WAIT
    /\ \E m, a \in HealthStatuses :
          /\ a = "healthy" => vm.app = "serving"
          /\ script' = IF m = "healthy" /\ a = "healthy"
                       THEN [script EXCEPT !.MONGODB_HEALTH = m, !.APP_HEALTH = a,
                                           !.pc = "warn"]
                       ELSE [script EXCEPT !.MONGODB_HEALTH = m, !.APP_HEALTH = a,
                                           !.ELAPSED = @ + INTERVAL]
    /\ UNCHANGED <<todos, now, last, persistence, concurrent, page, form, tf, vm, lb>>

\* The loop condition [ $ELAPSED -lt $MAX_WAIT ] is false.
LoopEnds ==
    /\ script.pc = "wait"
    /\ ~(script.ELAPSED < MAX_WAIT)
    /\ script' = [script EXCEPT !.pc = "warn"]
    /\ UNCHANGED <<todos, now, last, persistence, concurrent, page, form, tf, vm, lb>>

\* if [ $ELAPSED -ge $MAX_WAIT ]: the warning, with the status and the logs
\* of the containers; the script goes on in both cases.
Warn ==
    /\ script.pc = "warn"
    /\ script' = [script EXCEPT !.warned = (script.ELAPSED >= MAX_WAIT),
                                !.pc = After(tf, "warn")]
    /\ UNCHANGED <<todos, now, last, persistence, concurrent, page, form, tf, vm, lb>>

\* The application in a started container begins to serve on port 3000.
AppBoots ==
    /\ vm.app = "starting"
    /\ vm' = [vm EXCEPT !.app = "serving"]
    /\ UNCHANGED <<todos, now, last, persistence, concurrent, page, form, tf, script, lb>>

\* request_path of http_health_check (port 3000).
RequestPath(file) ==
    IF file = "infrastructure/infrastructure.tf" THEN "/health" ELSE "/api/health"

\* The status the application answers a GET of a path with: the health
\* handler is served at /api/health (app/api/health/route.ts), the page at /,
\* and a path with no route is answered 404.
Route(path) ==
    CASE path = "/api/health" -> HealthResponse(now).status
      [] path = "/" -> 200
      [] OTHER -> 404

\* The status a probe receives; 0 when nothing answers on port 3000.
ProbeStatus == IF vm.app = "serving" THEN Route(RequestPath(tf)) ELSE 0

\* One probe of the health check: 200 is a success; HealthyThreshold
\* successes in a row mark the backend healthy, UnhealthyThreshold failures
\* in a row mark it unhealthy.
Probe ==
    /\ lb' = IF ProbeStatus = 200
             THEN LET n == IF lb.successes < HealthyThreshold THEN lb.successes + 1
                           ELSE HealthyThreshold
                  IN  [health |-> IF n >= HealthyThreshold THEN "healthy" ELSE lb.health,
                       successes |-> n, failures |-> 0]
             ELSE LET n == IF lb.failures < UnhealthyThreshold THEN lb.failures + 1
                           ELSE UnhealthyThreshold
                  IN  [health |-> IF n >= UnhealthyThreshold THEN "unhealthy" ELSE lb.health,
                       successes |-> 0, failures |-> n]
    /\ UNCHANGED <<todos, now, last, persistence, concurrent, page, form, tf, script, vm>>

\* A VM that was deployed before and serves the application of an earlier
\* commit.
ServingVm ==
    [docker |-> TRUE, compose |-> TRUE, repo |-> "old", image |-> "old",
     app |-> "serving", code |-> "old"]

InitDeploy ==
    /\ todos = << >>
    /\ now = 0
    /\ last = NoRequest
    /\ storeUp = TRUE
    /\ conn = "none"
    /\ reqs = [r \in Slots |-> FreeSlot]
    /\ base = << >>
    /\ NoPage
    /\ form = EmptyForm
    /\ tf \in TerraformFiles
    /\ script = ScriptOff
    /\ vm \in {FreshVm, ServingVm}
    /\ lb = NoProbes

NextDeploy ==
    \/ ScriptStarts \/ StepSucceeds \/ StepFails
    \/ Poll \/ LoopEnds \/ Warn
    \/ AppBoots \/ Probe

\* One VM behind the load balancer, with either Terraform file applied.
SpecDeploy == InitDeploy /\ [][NextDeploy]_vars

\* The same, where the script, the container and the health check go on:
\* bash runs the next command, the application started in a container comes
\* up, and the health check probes every check_interval_sec.
SpecDeployFair ==
    /\ SpecDeploy
    /\ WF_vars(StepSucceeds \/ Poll \/ LoopEnds \/ Warn)
    /\ WF_vars(AppBoots)
    /\ WF_vars(Probe)

(* ------------------------------- C21 ---------------------------------- *)
\* C21: the health check probes the path at which the application serves
\* its health handler, /api/health; so a probe sent while the application
\* serves receives 200, counts as a success and does not mark the backend
\* unhealthy, and a backend whose application keeps serving is eventually
\* marked healthy.
C21_ProbeMarksBackendHealthy ==
    /\ [][(vm.app = "serving" /\ lb' # lb) =>
            /\ Route(RequestPath(tf)) = HealthResponse(now).status
            /\ ProbeStatus = 200
            /\ lb'.failures = 0
            /\ lb.health # "unhealthy" => lb'.health # "unhealthy"
         ]_vars
    /\ (vm.app = "serving") ~> (lb.health = "healthy" \/ vm.app # "serving")

(* ------------------------------- C22 ---------------------------------- *)
\* C22: redeployment is zero-downtime: while the startup script runs on a VM
\* whose application container serves on port 3000, no step of the script
\* leaves the port without a serving container (the old container serves
\* until the new one does).
C22_ZeroDowntimeRedeploy ==
    [][(Running /\ vm.app = "serving") => vm'.app = "serving"]_vars

(* ------------------------------- C23 ---------------------------------- *)
\* C23: the startup script installs Docker and Docker Compose, then clones
\* the repository, and only then builds and starts the containers; it exits
\* early only when an external command (apt-get, curl, git, docker-compose)
\* fails, so that on a fresh VM where they all succeed it runs to its end;
\* and at its end the application container runs the repository's code.
C23_StartupScriptOrder ==
    /\ script.pc \in {"build", "up"} => (vm.docker /\ vm.compose /\ vm.repo = "new")
    /\ script.pc = "aborted" => script.failed \in ExternalCommands
    /\ script.pc = "done" => (vm.app # "none" /\ vm.code = "new")

(* ------------------------------- C24 ---------------------------------- *)
\* The failure message of each todo handler.
FailureMessage(op) ==
    CASE op = "LIST" -> "Failed to fetch todos"
      [] op = "POST" -> "Failed to create todo"
      [] op = "GET" -> "Failed to fetch todo"
      [] op = "PUT" -> "Failed to update todo"
      [] op = "DELETE" -> "Failed to delete todo"

\* C24: every todo handler acquires the connection before its store call: a
\* handler that got a result from the store holds the handle.  When the
\* process has no handle and the store cannot be reached, the handler reads
\* and writes nothing, leaves the process without a handle (one attempt, no
\* retry) and returns its failure response, with status 500 for list, get
\* and delete.
C24_ConnectBeforeStoreCall ==
    [][last'.op \in TodoOps =>
          /\ (last'.success \/ last'.status = 404) => conn' = "cached"
          /\ (conn = "none" /\ ~storeUp) =>
                /\ todos' = todos
                /\ conn' = "none"
                /\ ~last'.success
                /\ last'.data = << >>
                /\ last'.error = FailureMessage(last'.op)
                /\ last'.op \in {"LIST", "GET", "DELETE"} => last'.status = 500
      ]_vars

\* A DELETE of a stored todo was answered 500 by a process that has no
\* handle while the store cannot be reached, and the todo is still stored.
C24_Witness ==
    /\ last.op = "DELETE" /\ last.status = 500
    /\ Matches(todos, last.id)
    /\ conn = "none"
    /\ ~storeUp

(* ------------------------------- C25 ---------------------------------- *)
\* C25: a PUT with the empty body {} on a stored id answers 200, leaves
\* title, description and completed of the todo (and every other todo) as
\* they were, and leaves an updatedAt that is not earlier than the one before.
C25_EmptyUpdateRefreshes ==
    [][(last'.op = "PUT" /\ last'.body = NoBody /\ Matches(todos, last'.id)) =>
          LET i == last'.id.n IN
          /\ last'.status = 200 /\ last'.success
          /\ i \in DOMAIN todos'
          /\ \A f \in ContentFields : todos'[i][f] = todos[i][f]
          /\ OthersSame(todos, todos', i)
          /\ todos'[i].updatedAt.n >= todos[i].updatedAt.n
      ]_vars

(* ------------------------------- C26 ---------------------------------- *)
\* Both slots hold a PUT on one id, answered 200, and no content field is
\* supplied by both.
DisjointUpdates(r1, r2) ==
    /\ r1 # r2
    /\ reqs[r1].pc = "done" /\ reqs[r2].pc = "done"
    /\ reqs[r1].op = "PUT" /\ reqs[r2].op = "PUT"
    /\ reqs[r1].id = reqs[r2].id
    /\ reqs[r1].resp.status = 200 /\ reqs[r2].resp.status = 200
    /\ Supplied(reqs[r1].body) # {} /\ Supplied(reqs[r2].body) # {}
    /\ Supplied(reqs[r1].body) \cap Supplied(reqs[r2].body) = {}

\* The store after the update of slot r1 and then that of slot r2, from `store`.
OneThenOther(store, r1, r2) ==
    UpdateOutcome(UpdateOutcome(store, reqs[r1].id, reqs[r1].body, reqs[r1].ts).store,
                  reqs[r2].id, reqs[r2].body, reqs[r2].ts).store

\* C26: two PUTs on one id in progress together, both answered 200, with
\* disjoint fields: the todo left carries the fields of both, and its title,
\* description and completed are those of either order of the two updates.
C26_DisjointUpdatesCommute ==
    \A r1, r2 \in Slots :
        DisjointUpdates(r1, r2) =>
            LET i == reqs[r1].id.n IN
            /\ i \in DOMAIN todos
            /\ \A r \in {r1, r2} : \A f \in Supplied(reqs[r].body) :
                   todos[i][f] = CastField(f, reqs[r].body[f])
            /\ \A f \in ContentFields \ (Supplied(reqs[r1].body) \cup Supplied(reqs[r2].body)) :
                   todos[i][f] = base[i][f]
            /\ \A f \in ContentFields :
                   /\ OneThenOther(base, r1, r2)[i][f] = todos[i][f]
                   /\ OneThenOther(base, r2, r1)[i][f] = todos[i][f]

\* A PUT of the title and a PUT of completed on one todo were in progress
\* together; the one that started first made its store call last, and the
\* todo has the new title and the new completed.
C26_Witness ==
    /\ DisjointUpdates(1, 2)
    /\ reqs[1].body.title = TitleB /\ reqs[2].body.completed = Bool(TRUE)
    /\ base[reqs[1].id.n].title = TitleA
    /\ base[reqs[1].id.n].completed = Bool(FALSE)
    /\ todos[reqs[1].id.n].title = TitleB
    /\ todos[reqs[1].id.n].completed = Bool(TRUE)
    /\ reqs[1].ts < reqs[2].ts
    /\ todos[reqs[1].id.n].updatedAt = Date(reqs[1].ts)

(* ------------------------- one user at the page ----------------------- *)
\* No handler of the page awaits its fetch or its resumption.
Quiet == Awaiting("free") = CallSlots

\* The user acts only when the response to the action before is processed.
SubmitNext == Quiet /\ Submit
ToggleNext == Quiet /\ Toggle
RemoveNext == Quiet /\ Remove

NextClient ==
    \/ Mount \/ SubmitNext \/ ToggleNext \/ RemoveNext
    \/ Answer \/ Throw \/ Resumes
    \/ TickDuringRequests

\* The page is opened at instant 0.
InitClient ==
    /\ todos \in StoresBefore
    /\ now = 0
    /\ last = NoRequest
    /\ storeUp = TRUE
    /\ conn = "none"
    /\ reqs = [r \in Slots |-> FreeSlot]
    /\ base = << >>
    /\ NoPage
    /\ form = EmptyForm
    /\ NoDeployment

\* One page, the only client of the service, used by one user who waits for
\* each response; the store reachable.
SpecClient == InitClient /\ [][NextClient]_vars

(* ------------------------------- C27 ---------------------------------- *)
\* The initial load is done and did not throw, and every response is
\* processed.
Loaded ==
    /\ ~loading
    /\ Quiet
    /\ \A k \in DOMAIN console : console[k] # ErrorMessage("load")

Refusal(q) ==
    Response(q.op, q.id, q.body, IF q.op \in {"POST", "PUT"} THEN 400 ELSE 500,
             << >>, FailureMessage(q.op))

\* The service handles the request of call c with the store reachable.
ServerServes(c) == storeUp /\ ServerAnswers(c)

\* The service handles the request of call c with the store unreachable: the
\* response has success false.
ServerRefuses(c) ==
    /\ ~storeUp
    /\ calls[c].stage = "sent"
    /\ calls' = [calls EXCEPT ![c].stage = "answered",
                              ![c].resp = Refusal(RequestOf(calls[c]))]
    /\ UNCHANGED <<todos, now, last, persistence, concurrent, form, deployment, view, loading, console>>

Serves == \E c \in CallSlots : ServerServes(c)
Refuses == \E c \in CallSlots : ServerRefuses(c)

NextVisit ==
    \/ Mount \/ SubmitNext \/ ToggleNext \/ RemoveNext
    \/ Serves \/ Refuses \/ Throw \/ Resumes
    \/ StoreFails \/ StoreRecovers

\* The page is opened with the store reachable or not.
InitVisit ==
    /\ todos \in StoresBefore
    /\ now = MaxTime
    /\ last = NoRequest
    /\ storeUp \in BOOLEAN
    /\ conn = "none"
    /\ reqs = [r \in Slots |-> FreeSlot]
    /\ base = << >>
    /\ NoPage
    /\ form = EmptyForm
    /\ NoDeployment

\* One page used by one waiting user, over a store that comes and goes.
SpecVisit == InitVisit /\ [][NextVisit]_vars

\* The effect of Home runs after the mount, a fetch settles (it resolves or
\* it rejects), and a settled await resumes its handler.
SpecVisitFair ==
    /\ SpecVisit
    /\ WF_vars(Mount)
    /\ WF_vars(Serves \/ Refuses \/ Throw)
    /\ WF_vars(Resumes)

(* ------------------------------- C28 ---------------------------------- *)
\* fetchTodos resumes in this step.
LoadResumes == calls[1].kind = "load" /\ calls'[1].stage = "free"

\* C28: the initial load always leaves the loading state, whether GET
\* /api/todos succeeds, answers success false or throws: loading eventually
\* is false and never true again; the list shown is empty until the load
\* resumes, and is then the list of the response when it has success true,
\* the server's list, and stays empty otherwise.
C28_LoadLeavesLoading ==
    /\ loading ~> ~loading
    /\ [][~loading => ~loading']_vars
    /\ [](loading => view = << >>)
    /\ [][LoadResumes =>
            /\ loading /\ ~loading'
            /\ IF calls[1].stage = "answered" /\ calls[1].resp.success
               THEN /\ view' = calls[1].resp.data
                    /\ view' \in SortedLists(todos, DOMAIN todos)
               ELSE view' = << >>
         ]_vars

\* The load was answered with success false over an unreachable store that
\* holds a todo; the page has left loading with an empty list, and the user
\* went on to add a todo, which was refused too.
C28_Witness ==
    /\ ~loading
    /\ view = << >>
    /\ console = << >>
    /\ DOMAIN todos # {}
    /\ ~storeUp
    /\ calls[1].kind = "add"
    /\ calls[1].stage = "answered"
    /\ ~calls[1].resp.success

(* ------------------------------ the add form --------------------------- *)
\* What the user types into the title input: nothing, blanks, a title, and a
\* title longer than the schema allows; and into the description.
TypedTitles == {Str("", 0), Str(" ", 1), Str(" ", 2), TitleA, Str("a", TitleMaxLength + 1)}
TypedDescriptions == {Str("", 0), Str("a", 1)}

\* A string is truthy in JavaScript when it is not empty.
Truthy(v) == v.n > 0

\* handleSubmit without the trim: if (title).
HandleSubmitMutant(f) ==
    IF Truthy(f.title)
    THEN [onAddTodo |-> <<[title |-> f.title, description |-> f.description]>>,
          form |-> EmptyForm]
    ELSE [onAddTodo |-> << >>, form |-> f]

\* handleSubmit on the form f: the calls of onAddTodo it makes, with their
\* arguments, and the fields it leaves.
HandleSubmit(f) ==
    IF Truthy(Trim(f.title))
    THEN [onAddTodo |-> <<[title |-> f.title, description |-> f.description]>>,
          form |-> EmptyForm]
    ELSE [onAddTodo |-> << >>, form |-> f]

\* onChange of the two inputs; the form is rendered once the load is over.
TypeTitle ==
    /\ ~loading
    /\ \E t \in TypedTitles : form' = [form EXCEPT !.title = t]
    /\ UNCHANGED <<todos, now, last, persistence, concurrent, page, deployment>>
TypeDescription ==
    /\ ~loading
    /\ \E d \in TypedDescriptions : form' = [form EXCEPT !.description = d]
    /\ UNCHANGED <<todos, now, last, persistence, concurrent, page, deployment>>

\* handleAddTodo(title, description) up to its await: the POST it sends.
AddTodoCall(a) ==
    Call("add", Absent,
         Body(TRUE, a.title, a.description, Bool(FALSE), Absent, Absent, Absent),
         view, "sent", NoRequest)

\* The form is submitted: handleSubmit runs, and each onAddTodo it calls is
\* handleAddTodo of the page.
SubmitForm ==
    /\ ~loading
    /\ Awaiting("free") # {}
    /\ Cardinality(FreshIds)
           > Cardinality({c \in Awaiting("sent") : calls[c].kind = "add"})
    /\ LET r == HandleSubmit(form) IN
         /\ form' = r.form
         /\ calls' = IF r.onAddTodo = << >> THEN calls
                     ELSE [calls EXCEPT ![NextCall] = AddTodoCall(r.onAddTodo[1])]
    /\ UNCHANGED <<todos, now, last, persistence, concurrent, deployment, view, loading, console>>

NextForm ==
    Mount \/ TypeTitle \/ TypeDescription \/ SubmitForm \/ Answer \/ Throw \/ Resumes

\* The page with its form, the only client of the service.
SpecForm == InitPage /\ [][NextForm]_vars

(* ------------------------------- C29 ---------------------------------- *)
\* handleAddTodo is called in this step, in the slot c.
AddCalled(c) == calls[c].stage = "free" /\ calls'[c].kind = "add"

\* C29: the form issues a create request only when the title is not empty
\* after trimming: a submit with an empty or blank title calls no handler
\* and leaves the fields as they are; a submit that passes calls onAddTodo
\* once, with the title and the description as typed, and empties both
\* fields.
C29_FormSubmitsNonBlankTitle ==
    /\ [](LET r == HandleSubmit(form) IN
            IF Truthy(Trim(form.title))
            THEN /\ r.onAddTodo = <<[title |-> form.title, description |-> form.description]>>
                 /\ r.form = EmptyForm
            ELSE /\ r.onAddTodo = << >>
                 /\ r.form = form)
    /\ [](\A c \in CallSlots :
            calls[c].kind = "add" => Truthy(Trim(calls[c].body.title)))
    /\ [][\A c \in CallSlots :
            AddCalled(c) =>
                /\ Truthy(Trim(form.title))
                /\ calls'[c].body.title = form.title
                /\ calls'[c].body.description = form.description
                /\ calls'[c].body.completed = Bool(FALSE)
                /\ form' = EmptyForm
                /\ \A d \in CallSlots \ {c} : calls'[d] = calls[d]
         ]_vars

\* A title and a description were typed and submitted: the POST carries
\* them and the form is empty again; then blanks were typed into the title,
\* which a submit leaves where they are.
C29_Witness ==
    /\ \E c \in CallSlots :
          /\ calls[c].kind = "add"
          /\ calls[c].body.title = TitleA
          /\ calls[c].body.description = Str("a", 1)
    /\ form = [title |-> Str(" ", 2), description |-> Str("", 0)]
    /\ HandleSubmit(form).onAddTodo = << >>

(* ------------------------------- C30 ---------------------------------- *)
\* The last poll saw both containers healthy.
BothHealthy(s) == s.MONGODB_HEALTH = "healthy" /\ s.APP_HEALTH = "healthy"

====
